---- MODULE Spec2Model ----
(***************************************************************************)
(* A model of py_validation_script.py: the three CSV files are loaded into *)
(* DataFrames, the Step 5 validation rules fill validation_dict, the       *)
(* Excel report is written, and the three frames are written to MySQL.     *)
(*                                                                         *)
(* A DataFrame is a sequence of rows (records); the index label of a row   *)
(* is its position.  A row subset df[mask] is the ascending sequence of    *)
(* the index labels it keeps.  A date is the day of January 2026 it falls  *)
(* on; a missing date (pandas NaT) is the value NaT.                       *)
(***************************************************************************)
EXTENDS Integers, Sequences, FiniteSets, TLC

VARIABLES
    files,            \* the three CSV files on disk
    pc,               \* the position of the script
    customers_df,
    subscriptions_df,
    events_df,
    validation_dict,  \* rule name -> the rule's result
    report,           \* the sheet names written to the Excel file, in order
    tables,           \* MySQL table name -> [replaced, rows]
    prints            \* what the script printed, in order

vars == <<files, pc, customers_df, subscriptions_df, events_df,
          validation_dict, report, tables, prints>>

----------------------------------------------------------------------------
(* Values *)

\* pandas NaT: what parse_dates gives for an empty date cell
NaT == 0

\* datetime(2026, 1, 9), as the day of January 2026
CURRENT_DATE == 9

\* a monthly_price cell that is not a number (the column is then of dtype object)
NonNumeric == 999999

NotNull(d) == d # NaT

\* Comparisons of dates as pandas makes them: an ordering with NaT is False,
\* and != with NaT is True.
DateLt(a, b) == NotNull(a) /\ NotNull(b) /\ a < b
DateGt(a, b) == NotNull(a) /\ NotNull(b) /\ a > b
DateNe(a, b) == ~NotNull(a) \/ ~NotNull(b) \/ a # b

Range(s) == {s[i] : i \in DOMAIN s}

SeqsUpTo(S, n) == UNION {[1..k -> S] : k \in 0..n}

\* F[1] \o F[2] \o ... \o F[n], for a sequence F of sequences
FlatMap(F) ==
    LET f[k \in 0..Len(F)] == IF k = 0 THEN <<>> ELSE f[k - 1] \o F[k]
    IN  f[Len(F)]

\* df[mask]: the index labels of the rows the mask keeps, in row order; the
\* mask is the set of the index labels it is True at
RowsWhere(df, mask) ==
    SelectSeq([i \in 1..Len(df) |-> i], LAMBDA i : i \in mask)

\* Series.min(): the least date that is not NaT, NaT when there is none
MinDate(S) ==
    LET dated == {d \in S : NotNull(d)}
    IN  IF dated = {} THEN NaT
        ELSE CHOOSE d \in dated : \A x \in dated : d <= x

\* the elements of a finite set of integers in ascending order
SortedSeq(S) ==
    LET f[k \in 0..Cardinality(S)] ==
            IF k = 0 THEN <<>>
            ELSE LET rest == S \ Range(f[k - 1])
                 IN  Append(f[k - 1], CHOOSE m \in rest : \A x \in rest : m <= x)
    IN  f[Cardinality(S)]

----------------------------------------------------------------------------
(* Step 5: the validation rules, over the frames c (customers),            *)
(* s (subscriptions) and e (events)                                        *)

\* 5.1
customers_unique(c) ==
    << [unique_count |-> Cardinality({c[i].customer_id : i \in DOMAIN c}),
        total_rows   |-> Len(c)] >>

\* 5.2 with keep='first': the first occurrence of an id is not marked
duplicate_customer_ids_keep_first(c) ==
    RowsWhere(c, {i \in DOMAIN c :
        \E j \in DOMAIN c : j < i /\ c[j].customer_id = c[i].customer_id})

\* 5.2: duplicated(subset=['customer_id'], keep=False)
duplicate_customer_ids(c) ==
    RowsWhere(c, {i \in DOMAIN c :
        \E j \in DOMAIN c : j # i /\ c[j].customer_id = c[i].customer_id})

\* 5.3
all_customer_ids(c) == {c[i].customer_id : i \in DOMAIN c}

subs_invalid_customers(c, s) ==
    RowsWhere(s, {i \in DOMAIN s : ~(s[i].customer_id \in all_customer_ids(c))})

\* 5.3 without the ~ of the mask
events_invalid_customers_unnegated(c, e) ==
    RowsWhere(e, {i \in DOMAIN e : e[i].customer_id \in all_customer_ids(c)})

events_invalid_customers(c, e) ==
    RowsWhere(e, {i \in DOMAIN e : ~(e[i].customer_id \in all_customer_ids(c))})

\* 5.4: comparing a column of dtype object with 0 raises TypeError
invalid_prices_raises(s) ==
    \E i \in DOMAIN s : s[i].monthly_price = NonNumeric

invalid_prices(s) ==
    RowsWhere(s, {i \in DOMAIN s : s[i].monthly_price <= 0})

invalid_dates(s) ==
    RowsWhere(s, {i \in DOMAIN s :
        NotNull(s[i].end_date) /\ DateGt(s[i].start_date, s[i].end_date)})

\* 5.5: the signup events whose customer_id is duplicated among the signup
\* events, grouped by customer_id (groupby sorts the keys) and counted
signup_rows(e) ==
    RowsWhere(e, {i \in DOMAIN e : e[i].event_type = "signup"})

multiple_signups(e) ==
    LET signups == Range(signup_rows(e))
        n(id)   == Cardinality({i \in signups : e[i].customer_id = id})
        ids     == {e[i].customer_id : i \in {k \in signups :
                        \E j \in signups : j # k /\ e[j].customer_id = e[k].customer_id}}
        sorted  == SortedSeq(ids)
    IN  [k \in 1..Len(sorted) |-> [customer_id |-> sorted[k], count |-> n(sorted[k])]]

\* 5.6 without dropna(subset=['signup_date'])
customers_signup_keep_null(c) ==
    [k \in 1..Len(c) |->
        [customer_id |-> c[k].customer_id, signup_date |-> c[k].signup_date]]

\* 5.6
customers_signup(c) ==
    LET kept == RowsWhere(c, {i \in DOMAIN c : NotNull(c[i].signup_date)})
    IN  [k \in 1..Len(kept) |->
            [customer_id |-> c[kept[k]].customer_id,
             signup_date |-> c[kept[k]].signup_date]]

\* events_df.merge(customers_signup, on='customer_id', how='left'): the rows of
\* the left frame in order, each once per matching right row (in the right
\* frame's order), or once with a missing signup_date when none matches
events_with_signup(c, e) ==
    LET right == customers_signup(c)
        matches(i) == SelectSeq(right, LAMBDA r : r.customer_id = e[i].customer_id)
        joined(i, d) == [customer_id |-> e[i].customer_id,
                         event_type  |-> e[i].event_type,
                         event_date  |-> e[i].event_date,
                         signup_date |-> d]
        rowsOf(i) == IF matches(i) = <<>> THEN << joined(i, NaT) >>
                     ELSE [k \in 1..Len(matches(i)) |-> joined(i, matches(i)[k].signup_date)]
    IN  FlatMap([i \in 1..Len(e) |-> rowsOf(i)])

invalid_event_dates(c, e) ==
    SelectSeq(events_with_signup(c, e), LAMBDA r :
        DateLt(r.event_date, r.signup_date) /\ NotNull(r.signup_date))

\* 5.7
active_with_end(s) ==
    RowsWhere(s, {i \in DOMAIN s : s[i].status = "active" /\ NotNull(s[i].end_date)})

\* 5.8 with notnull() for isnull()
canceled_without_end_notnull(s) ==
    RowsWhere(s, {i \in DOMAIN s : s[i].status = "canceled" /\ NotNull(s[i].end_date)})

\* 5.8
canceled_without_end(s) ==
    RowsWhere(s, {i \in DOMAIN s : s[i].status = "canceled" /\ ~NotNull(s[i].end_date)})

\* 5.9
customers_no_subs(c, s) ==
    RowsWhere(c, {i \in DOMAIN c : ~(c[i].customer_id \in {s[j].customer_id : j \in DOMAIN s})})

\* 5.10
customers_no_events(c, e) ==
    RowsWhere(c, {i \in DOMAIN c : ~(c[i].customer_id \in {e[j].customer_id : j \in DOMAIN e})})

\* 5.11
subs_no_events(s, e) ==
    RowsWhere(s, {i \in DOMAIN s : ~(s[i].customer_id \in {e[j].customer_id : j \in DOMAIN e})})

\* 5.12
future_customers(c) ==
    RowsWhere(c, {i \in DOMAIN c : DateGt(c[i].signup_date, CURRENT_DATE)})

future_subs_start(s) ==
    RowsWhere(s, {i \in DOMAIN s : DateGt(s[i].start_date, CURRENT_DATE)})

future_subs_end(s) ==
    RowsWhere(s, {i \in DOMAIN s : DateGt(s[i].end_date, CURRENT_DATE)})

future_events(e) ==
    RowsWhere(e, {i \in DOMAIN e : DateGt(e[i].event_date, CURRENT_DATE)})

\* 5.13
\* events_df['customer_id'].unique(): the ids in order of first appearance
unique_customer_ids(e) ==
    LET first == RowsWhere(e, {i \in DOMAIN e :
                    \A j \in 1..(i - 1) : e[j].customer_id # e[i].customer_id})
    IN  [k \in 1..Len(first) |-> e[first[k]].customer_id]

\* cust_events[cust_events['event_type'] == type]['event_date'].min()
first_event_date(e, cust_id, type) ==
    MinDate({e[i].event_date : i \in {j \in DOMAIN e :
                e[j].customer_id = cust_id /\ e[j].event_type = type}})

\* 5.13 with <= for <
sequence_issues_le(e, cust_id) ==
    LET signup_date    == first_event_date(e, cust_id, "signup")
        trial_date     == first_event_date(e, cust_id, "trial_start")
        activated_date == first_event_date(e, cust_id, "activated")
        churned_date   == first_event_date(e, cust_id, "churned")
    IN  (IF NotNull(trial_date) /\ trial_date <= signup_date
            THEN << "trial_before_signup" >> ELSE <<>>)
        \o (IF NotNull(activated_date) /\ activated_date <= signup_date
            THEN << "activated_before_signup" >> ELSE <<>>)
        \o (IF NotNull(churned_date) /\ churned_date <= signup_date
            THEN << "churned_before_signup" >> ELSE <<>>)

\* the issues list of one customer, in the order it is appended to
sequence_issues(e, cust_id) ==
    LET signup_date    == first_event_date(e, cust_id, "signup")
        trial_date     == first_event_date(e, cust_id, "trial_start")
        activated_date == first_event_date(e, cust_id, "activated")
        churned_date   == first_event_date(e, cust_id, "churned")
    IN  (IF NotNull(trial_date) /\ trial_date < signup_date
            THEN << "trial_before_signup" >> ELSE <<>>)
        \o (IF NotNull(activated_date) /\ activated_date < signup_date
            THEN << "activated_before_signup" >> ELSE <<>>)
        \o (IF NotNull(churned_date) /\ churned_date < signup_date
            THEN << "churned_before_signup" >> ELSE <<>>)

event_sequence_issues(e) ==
    LET ids == unique_customer_ids(e)
        entry(k) ==
            IF ~NotNull(first_event_date(e, ids[k], "signup")) THEN <<>>
            ELSE IF sequence_issues(e, ids[k]) = <<>> THEN <<>>
            ELSE << [customer_id |-> ids[k], issues |-> sequence_issues(e, ids[k])] >>
    IN  FlatMap([k \in 1..Len(ids) |-> entry(k)])

\* 5.14
signup_events(e) ==
    LET kept == signup_rows(e)
    IN  [k \in 1..Len(kept) |->
            [customer_id       |-> e[kept[k]].customer_id,
             event_signup_date |-> e[kept[k]].event_date]]

signup_mismatch(c, e) ==
    LET left  == customers_signup(c)
        right == signup_events(e)
        matches(i) == SelectSeq(right, LAMBDA r : r.customer_id = left[i].customer_id)
        joined(i, d) == [customer_id       |-> left[i].customer_id,
                         signup_date       |-> left[i].signup_date,
                         event_signup_date |-> d]
        rowsOf(i) == IF matches(i) = <<>> THEN << joined(i, NaT) >>
                     ELSE [k \in 1..Len(matches(i)) |->
                              joined(i, matches(i)[k].event_signup_date)]
    IN  SelectSeq(FlatMap([i \in 1..Len(left) |-> rowsOf(i)]), LAMBDA r :
            DateNe(r.signup_date, r.event_signup_date))

\* the keys of validation_dict, in the order Step 5 assigns them
RuleOrder ==
    << "customers_unique", "duplicate_customer_ids",
       "subs_invalid_customers", "events_invalid_customers",
       "invalid_prices", "invalid_dates", "multiple_signups",
       "invalid_event_dates", "active_with_end", "canceled_without_end",
       "customers_no_subs", "customers_no_events", "subs_no_events",
       "future_customers", "future_subs_start", "future_subs_end",
       "future_events", "event_sequence_issues", "signup_mismatch" >>

RuleNames == Range(RuleOrder)

RuleValue(name, c, s, e) ==
    CASE name = "customers_unique"         -> customers_unique(c)
      [] name = "duplicate_customer_ids"   -> duplicate_customer_ids(c)
      [] name = "subs_invalid_customers"   -> subs_invalid_customers(c, s)
      [] name = "events_invalid_customers" -> events_invalid_customers(c, e)
      [] name = "invalid_prices"           -> invalid_prices(s)
      [] name = "invalid_dates"            -> invalid_dates(s)
      [] name = "multiple_signups"         -> multiple_signups(e)
      [] name = "invalid_event_dates"      -> invalid_event_dates(c, e)
      [] name = "active_with_end"          -> active_with_end(s)
      [] name = "canceled_without_end"     -> canceled_without_end(s)
      [] name = "customers_no_subs"        -> customers_no_subs(c, s)
      [] name = "customers_no_events"      -> customers_no_events(c, e)
      [] name = "subs_no_events"           -> subs_no_events(s, e)
      [] name = "future_customers"         -> future_customers(c)
      [] name = "future_subs_start"        -> future_subs_start(s)
      [] name = "future_subs_end"          -> future_subs_end(s)
      [] name = "future_events"            -> future_events(e)
      [] name = "event_sequence_issues"    -> event_sequence_issues(e)
      [] name = "signup_mismatch"          -> signup_mismatch(c, e)

\* whether evaluating the rule raises
RuleRaises(name, c, s, e) ==
    name = "invalid_prices" /\ invalid_prices_raises(s)

\* The keys Step 5 has assigned when it ends: all of them, or, when a rule
\* raises, those assigned before the raising statement (the script has no
\* try/except around a rule).
AssignedRules(c, s, e) ==
    LET raising == {k \in DOMAIN RuleOrder : RuleRaises(RuleOrder[k], c, s, e)}
        stop    == IF raising = {} THEN Len(RuleOrder) + 1
                   ELSE CHOOSE k \in raising : \A x \in raising : k <= x
    IN  {RuleOrder[k] : k \in 1..(stop - 1)}

\* df.empty
IsEmpty(df) == Len(df) = 0

----------------------------------------------------------------------------
(* Step 6: the sheets written before the validation sheets *)

ExplorationSheets ==
    << "customers_desc", "customers_unique_segments", "customers_unique_countries",
       "customers_is_enterprise", "subscriptions_desc", "subscriptions_unique_status",
       "subscriptions_price_dist", "events_desc", "events_type_counts",
       "events_source_counts" >>

MissingSheets ==
    << "customers_missing", "subscriptions_missing", "events_missing" >>

DuplicateSheets ==
    << "customers_duplicates", "subscriptions_duplicates", "events_duplicates" >>

\* the loop over validation_dict.items(): a sheet per key whose frame passes
\* the test "not df.empty or not df.empty", in the order of the keys
ValidationSheets(vd) ==
    SelectSeq(RuleOrder, LAMBDA n : n \in DOMAIN vd /\ ~IsEmpty(vd[n]))

----------------------------------------------------------------------------
(* The script *)

TableNames == {"customers", "subscriptions", "events"}

\* Step 1: read_csv of the three files
Load ==
    /\ pc = "start"
    /\ customers_df' = files.customers
    /\ subscriptions_df' = files.subscriptions
    /\ events_df' = files.events
    /\ pc' = "loaded"
    /\ UNCHANGED <<files, validation_dict, report, tables, prints>>

\* Step 1 raises (a file is missing or malformed): the script ends
LoadError ==
    /\ pc = "start"
    /\ pc' = "load_failed"
    /\ UNCHANGED <<files, customers_df, subscriptions_df, events_df,
                   validation_dict, report, tables, prints>>

\* Step 5, lines 93-200: the rules run inline, one after the other; a rule
\* that raises ends the script with the keys assigned so far
RunValidation ==
    /\ pc = "loaded"
    /\ LET assigned == AssignedRules(customers_df, subscriptions_df, events_df)
       IN  /\ validation_dict' =
                 [n \in assigned |->
                     RuleValue(n, customers_df, subscriptions_df, events_df)]
           /\ pc' = IF assigned = RuleNames THEN "validated" ELSE "rule_failed"
    /\ UNCHANGED <<files, customers_df, subscriptions_df, events_df,
                   report, tables, prints>>

\* Step 6: the Excel file is written and its path printed
WriteReport ==
    /\ pc = "validated"
    /\ report' = ExplorationSheets \o MissingSheets \o DuplicateSheets
                    \o ValidationSheets(validation_dict)
    /\ prints' = Append(prints, "Validation results saved")
    /\ pc' = "reported"
    /\ UNCHANGED <<files, customers_df, subscriptions_df, events_df,
                   validation_dict, tables>>

\* Step 6 raises (the path cannot be written): the script ends
ReportError ==
    /\ pc = "validated"
    /\ pc' = "report_failed"
    /\ UNCHANGED <<files, customers_df, subscriptions_df, events_df,
                   validation_dict, report, tables, prints>>

\* to_sql in one transaction over the three tables: a failure undoes the
\* earlier replacements
ToSql_rollback(table, df, ok) ==
    IF ok
    THEN /\ tables' = [tables EXCEPT ![table] = [replaced |-> TRUE, rows |-> df]]
         /\ prints' = Append(prints, table \o " loaded successfully!")
    ELSE /\ tables' = [t \in DOMAIN tables |-> [replaced |-> FALSE, rows |-> <<>>]]
         /\ prints' = Append(prints, table \o " error")

\* df.to_sql(table, if_exists='replace') inside try/except: the table is
\* replaced by the frame and success printed, or the exception is printed
ToSql(table, df, ok) ==
    IF ok
    THEN /\ tables' = [tables EXCEPT ![table] = [replaced |-> TRUE, rows |-> df]]
         /\ prints' = Append(prints, table \o " loaded successfully!")
    ELSE /\ tables' = tables
         /\ prints' = Append(prints, table \o " error")

\* Step 7 begun before Step 6
LoadCustomers_before_report ==
    /\ pc \in {"validated", "reported"}
    /\ \E ok \in BOOLEAN :
          IF ok
          THEN /\ tables' = [tables EXCEPT !["customers"] =
                                [replaced |-> TRUE, rows |-> customers_df]]
               /\ prints' = Append(prints, "customers loaded successfully!")
          ELSE /\ tables' = tables
               /\ prints' = Append(prints, "customers error")
    /\ pc' = "customers_done"
    /\ UNCHANGED <<files, customers_df, subscriptions_df, events_df,
                   validation_dict, report>>

\* Step 7, lines 242-246
LoadCustomers ==
    /\ pc = "reported"
    /\ \E ok \in BOOLEAN : ToSql("customers", customers_df, ok)
    /\ pc' = "customers_done"
    /\ UNCHANGED <<files, customers_df, subscriptions_df, events_df,
                   validation_dict, report>>

\* Step 7, lines 248-252
LoadSubscriptions ==
    /\ pc = "customers_done"
    /\ \E ok \in BOOLEAN : ToSql("subscriptions", subscriptions_df, ok)
    /\ pc' = "subscriptions_done"
    /\ UNCHANGED <<files, customers_df, subscriptions_df, events_df,
                   validation_dict, report>>

\* Step 7, lines 254-258
LoadEvents ==
    /\ pc = "subscriptions_done"
    /\ \E ok \in BOOLEAN : ToSql("events", events_df, ok)
    /\ pc' = "events_done"
    /\ UNCHANGED <<files, customers_df, subscriptions_df, events_df,
                   validation_dict, report>>

\* lines 261-264: the row counts are read back and printed
VerifyLoad ==
    /\ pc = "events_done"
    /\ prints' = Append(prints, "Rows in customers, subscriptions, events")
    /\ pc' = "done"
    /\ UNCHANGED <<files, customers_df, subscriptions_df, events_df,
                   validation_dict, report, tables>>

\* lines 261-264 raise (no connection, or a table that does not exist)
VerifyError ==
    /\ pc = "events_done"
    /\ pc' = "verify_failed"
    /\ UNCHANGED <<files, customers_df, subscriptions_df, events_df,
                   validation_dict, report, tables, prints>>

\* Steps 1 to 6: loading, the rules and the report
NextRules ==
    \/ Load
    \/ LoadError
    \/ RunValidation
    \/ WriteReport
    \/ ReportError

\* the whole script
Next ==
    \/ Load
    \/ LoadError
    \/ RunValidation
    \/ WriteReport
    \/ ReportError
    \/ LoadCustomers
    \/ LoadSubscriptions
    \/ LoadEvents
    \/ VerifyLoad
    \/ VerifyError

----------------------------------------------------------------------------
(* Inputs *)

\* the most rows of customers.csv, subscriptions.csv, events.csv when the
\* rules of one file are checked
MaxCustomers == 3
MaxSubscriptions == 3
MaxEvents == 3

\* the most rows of each file when the rules across two files are checked
MaxJoinRows == 2

\* the most rows of each file when the whole script runs
MaxPipelineRows == 2

CustomerRows(ids, dates) ==
    [customer_id : ids, signup_date : dates]

SubscriptionRows(ids, statuses, prices, starts, ends) ==
    [customer_id : ids, status : statuses, monthly_price : prices,
     start_date : starts, end_date : ends]

EventRows(ids, types, dates) ==
    [customer_id : ids, event_type : types, event_date : dates]

\* the state when the script starts, with the files drawn from C, S and E
InitWith(C, S, E) ==
    /\ files \in [customers : C, subscriptions : S, events : E]
    /\ pc = "start"
    /\ customers_df = <<>>
    /\ subscriptions_df = <<>>
    /\ events_df = <<>>
    /\ validation_dict = <<>>
    /\ report = <<>>
    /\ tables = [t \in TableNames |-> [replaced |-> FALSE, rows |-> <<>>]]
    /\ prints = <<>>

\* the whole script on small files; a price cell may hold text
Init ==
    InitWith(SeqsUpTo(CustomerRows({1, 2}, {5}), MaxPipelineRows),
             SeqsUpTo(SubscriptionRows({1}, {"active"}, {10, NonNumeric}, {5}, {NaT, 15}),
                      MaxPipelineRows),
             SeqsUpTo(EventRows({1}, {"signup", "trial_start"}, {5, 10}), MaxPipelineRows))

Spec == Init /\ [][Next]_vars

\* Steps 1 to 6 with only customers.csv holding rows
InitUniqueness ==
    InitWith(SeqsUpTo(CustomerRows({1, 2, 3}, {NaT, 5}), MaxCustomers), {<<>>}, {<<>>})

SpecUniqueness == InitUniqueness /\ [][NextRules]_vars

\* Steps 1 to 6 with customers, subscriptions and events that may name
\* customers that do not exist
InitReferential ==
    InitWith(SeqsUpTo(CustomerRows({1, 2}, {5}), MaxJoinRows),
             SeqsUpTo(SubscriptionRows({1, 2, 3}, {"active"}, {10}, {5}, {NaT}), MaxJoinRows),
             SeqsUpTo(EventRows({1, 2, 3}, {"signup"}, {5}), MaxJoinRows))

SpecReferential == InitReferential /\ [][NextRules]_vars

\* Steps 1 to 6 with only subscriptions.csv holding rows
InitState ==
    InitWith({<<>>},
             SeqsUpTo(SubscriptionRows({1}, {"active", "canceled", "trial"}, {10}, {5},
                                       {NaT, 15}), MaxSubscriptions),
             {<<>>})

SpecState == InitState /\ [][NextRules]_vars

\* Steps 1 to 6 with only events.csv holding rows
InitTemporal ==
    InitWith({<<>>}, {<<>>},
             SeqsUpTo(EventRows({1, 2}, {"signup", "trial_start", "activated", "churned"},
                                {NaT, 5, 10}), MaxEvents))

SpecTemporal == InitTemporal /\ [][NextRules]_vars

\* Steps 1 to 6 with customers and their events
InitSignup ==
    InitWith(SeqsUpTo(CustomerRows({1, 2}, {NaT, 5}), MaxJoinRows),
             {<<>>},
             SeqsUpTo(EventRows({1, 2}, {"signup", "trial_start"}, {NaT, 5, 10}),
                      MaxJoinRows))

SpecSignup == InitSignup /\ [][NextRules]_vars

----------------------------------------------------------------------------
(* Claims *)

\* Step 5 has ended without raising
Validated == DOMAIN validation_dict = RuleNames

\* Step 6 has written the report
Reported == report # <<>>

\* the positions of Step 7 and after
PersistencePcs == {"customers_done", "subscriptions_done", "events_done",
                   "done", "verify_failed"}

\* the number of positions of a sequence that hold a value
Count(s, v) == Cardinality({k \in DOMAIN s : s[k] = v})

\* C1 as the specification states it: once the files are loaded, a rule that
\* raises does not end the run; every rule that does not raise has its result
\* captured under its name and the script goes on to the report.
C1_RuleFailureIsolated ==
    pc \notin {"start", "load_failed", "loaded"} =>
        /\ pc # "rule_failed"
        /\ \A n \in RuleNames :
              ~RuleRaises(n, customers_df, subscriptions_df, events_df)
                  => n \in DOMAIN validation_dict

\* C2 as the specification states it: a report that has been written holds a
\* sheet for every key of validation_dict, the keys with empty frames too.
C2_EmptySheetsWritten ==
    Reported => \A n \in DOMAIN validation_dict : n \in Range(report)

\* the messages of Step 7
SuccessOf(t) == t \o " loaded successfully!"
ErrorOf(t) == t \o " error"
TableOrder == << "customers", "subscriptions", "events" >>
TableMessages ==
    SelectSeq(prints, LAMBDA m : \E t \in TableNames : m \in {SuccessOf(t), ErrorOf(t)})

\* how many of the three writes have been made at each position of the script
WritesMade ==
    CASE pc = "customers_done"     -> 1
      [] pc = "subscriptions_done" -> 2
      [] pc \in {"events_done", "done", "verify_failed"} -> 3
      [] OTHER -> 0

C9_PipelineOrder ==
    /\ (\/ pc \in PersistencePcs
        \/ TableMessages # <<>>
        \/ \E t \in TableNames : tables[t].replaced) => Reported
    /\ Reported => (Validated /\ "Validation results saved" \in Range(prints))
    /\ DOMAIN validation_dict # {} =>
          /\ customers_df = files.customers
          /\ subscriptions_df = files.subscriptions
          /\ events_df = files.events
    /\ pc \in {"load_failed", "rule_failed", "report_failed"} =>
          \A t \in TableNames : ~tables[t].replaced /\ TableMessages = <<>>
    /\ pc = "validated" => ENABLED WriteReport
    /\ pc = "reported" => ENABLED LoadCustomers
    /\ \A t \in TableNames : tables[t].replaced => tables[t].rows = files[t]

\* C9's case: the rules found exceptions and the three tables were replaced
\* by the files' rows all the same
C9_Witness ==
    /\ pc = "done"
    /\ \E n \in RuleNames \ {"customers_unique"} : validation_dict[n] # <<>>
    /\ files.customers # <<>>
    /\ \A t \in TableNames : tables[t].replaced /\ tables[t].rows = files[t]

\* C6: duplicate_customer_ids holds exactly the customer rows whose
\* customer_id occurs in two or more customer rows, every occurrence of them,
\* each once and in row order; it is empty when the ids are all distinct.
C6_Uniqueness ==
    Validated =>
        LET c      == customers_df
            res    == validation_dict["duplicate_customer_ids"]
            occ(i) == Cardinality({j \in DOMAIN c : c[j].customer_id = c[i].customer_id})
        IN  /\ \A i \in DOMAIN c : (i \in Range(res)) <=> (occ(i) >= 2)
            /\ Range(res) \subseteq DOMAIN c
            /\ \A k \in 1..(Len(res) - 1) : res[k] < res[k + 1]
            /\ (Cardinality(all_customer_ids(c)) = Len(c)) => res = <<>>

\* C6's case: an id held by two rows beside an id held by one
C6_Witness ==
    /\ Validated
    /\ Len(customers_df) = 3
    /\ Len(validation_dict["duplicate_customer_ids"]) = 2
    /\ validation_dict["duplicate_customer_ids"][1] = 1

\* C7: subs_invalid_customers and events_invalid_customers hold exactly the
\* subscription rows and the event rows whose customer_id is the id of no
\* customer row; each is empty when every row names a customer.
C7_ReferentialIntegrity ==
    Validated =>
        LET c == customers_df
            known(id) == \E j \in DOMAIN c : c[j].customer_id = id
            exact(res, child) ==
                /\ Range(res) = {i \in DOMAIN child : ~known(child[i].customer_id)}
                /\ Len(res) = Cardinality(Range(res))
                /\ (\A i \in DOMAIN child : known(child[i].customer_id)) => res = <<>>
        IN  /\ exact(validation_dict["subs_invalid_customers"], subscriptions_df)
            /\ exact(validation_dict["events_invalid_customers"], events_df)

\* C7's case: a subscription and an event of a customer that does not exist
\* beside ones of a customer that does
C7_Witness ==
    /\ Validated
    /\ customers_df # <<>>
    /\ validation_dict["subs_invalid_customers"] = << 2 >>
    /\ validation_dict["events_invalid_customers"] = << 1 >>
    /\ Len(subscriptions_df) = 2
    /\ Len(events_df) = 2

\* C5: a subscription row is in active_with_end exactly when its status is
\* active and its end_date is set, and in canceled_without_end exactly when
\* its status is canceled and its end_date is missing; no row is in both, and
\* a canceled row with an end_date is in neither.
C5_StateConsistency ==
    Validated =>
        LET s   == subscriptions_df
            awe == Range(validation_dict["active_with_end"])
            cwe == Range(validation_dict["canceled_without_end"])
        IN  /\ awe \subseteq DOMAIN s
            /\ cwe \subseteq DOMAIN s
            /\ \A i \in DOMAIN s :
                  /\ (i \in awe) <=> (s[i].status = "active" /\ s[i].end_date # NaT)
                  /\ (i \in cwe) <=> (s[i].status = "canceled" /\ s[i].end_date = NaT)
                  /\ ~(i \in awe /\ i \in cwe)
                  /\ (s[i].status = "canceled" /\ s[i].end_date # NaT)
                        => (i \notin awe /\ i \notin cwe)

\* C5's case: an active row with an end_date, a canceled row without one and
\* a canceled row with one
C5_Witness ==
    /\ Validated
    /\ Len(subscriptions_df) = 3
    /\ validation_dict["active_with_end"] # <<>>
    /\ validation_dict["canceled_without_end"] # <<>>
    /\ \E i \in DOMAIN subscriptions_df :
          /\ subscriptions_df[i].status = "canceled"
          /\ subscriptions_df[i].end_date # NaT

\* the issue that event_sequence_issues names for an event type
IssueOf(type) == type \o "_before_signup"

IssueName(type) ==
    IF type = "trial_start" THEN "trial_before_signup" ELSE IssueOf(type)

CheckedTypes == {"trial_start", "activated", "churned"}

\* C4: for every customer id of events: with no (dated) signup event the
\* customer is not reported; otherwise T_before_signup is reported for it
\* exactly when it has an event of type T dated strictly before every one of
\* its signup events; the customer has an entry (one at most) exactly when
\* some issue holds for it.  An event with a missing date has no date to
\* compare.
C4_TemporalOrdering ==
    Validated =>
        LET e   == events_df
            res == validation_dict["event_sequence_issues"]
            dates(id, type) ==
                {e[i].event_date : i \in {j \in DOMAIN e :
                    /\ e[j].customer_id = id
                    /\ e[j].event_type = type
                    /\ e[j].event_date # NaT}}
            holds(id, type) ==
                /\ dates(id, "signup") # {}
                /\ \E d \in dates(id, type) : \A sd \in dates(id, "signup") : d < sd
            entries(id) == {k \in DOMAIN res : res[k].customer_id = id}
        IN  /\ \A k \in DOMAIN res : \E i \in DOMAIN e : e[i].customer_id = res[k].customer_id
            /\ \A i \in DOMAIN e :
                  LET id == e[i].customer_id
                  IN  /\ Cardinality(entries(id)) <= 1
                      /\ (entries(id) # {}) <=> (\E type \in CheckedTypes : holds(id, type))
                      /\ dates(id, "signup") = {} => entries(id) = {}
                      /\ \A type \in CheckedTypes :
                            (\E k \in entries(id) : IssueName(type) \in Range(res[k].issues))
                                <=> holds(id, type)
                      /\ \A k \in entries(id) :
                            Range(res[k].issues) \subseteq {IssueName(type) : type \in CheckedTypes}

\* C4's case: a customer with a trial_start before its signup is reported, a
\* customer with a trial_start and no signup is not
C4_Witness ==
    /\ Validated
    /\ Len(events_df) = 3
    /\ validation_dict["event_sequence_issues"] =
          << [customer_id |-> 1, issues |-> << "trial_before_signup" >>] >>
    /\ \E i \in DOMAIN events_df :
          /\ events_df[i].customer_id = 2
          /\ events_df[i].event_type = "trial_start"

\* C10: a row of signup_mismatch never carries a missing signup_date; for a
\* customer row with a signup_date and a signup event of the same customer,
\* the pair is a row of the result (once per such pair) exactly when the
\* event's date is not equal to the signup_date; and a customer row with a
\* signup_date and no signup event is a row of the result with a missing
\* event_signup_date.
C10_SignupMismatch ==
    Validated =>
        LET c   == customers_df
            e   == events_df
            res == validation_dict["signup_mismatch"]
            nCust(id, sd) ==
                Cardinality({i \in DOMAIN c :
                    c[i].customer_id = id /\ c[i].signup_date = sd})
            signupsOf(id) ==
                {j \in DOMAIN e : e[j].customer_id = id /\ e[j].event_type = "signup"}
            nEvent(id, ed) ==
                Cardinality({j \in signupsOf(id) : e[j].event_date = ed})
            nRows(id, sd, ed) ==
                Count(res, [customer_id |-> id, signup_date |-> sd, event_signup_date |-> ed])
        IN  /\ \A k \in DOMAIN res : res[k].signup_date # NaT
            /\ \A i \in DOMAIN c : c[i].signup_date # NaT =>
                  LET id == c[i].customer_id
                      sd == c[i].signup_date
                  IN  /\ \A j \in signupsOf(id) :
                            nRows(id, sd, e[j].event_date) =
                                IF e[j].event_date = sd THEN 0
                                ELSE nCust(id, sd) * nEvent(id, e[j].event_date)
                      /\ signupsOf(id) = {} => nRows(id, sd, NaT) = nCust(id, sd)
            /\ \A k \in DOMAIN res :
                  /\ \E i \in DOMAIN c :
                        /\ c[i].customer_id = res[k].customer_id
                        /\ c[i].signup_date = res[k].signup_date
                  /\ \/ \E j \in signupsOf(res[k].customer_id) :
                            e[j].event_date = res[k].event_signup_date
                     \/ signupsOf(res[k].customer_id) = {} /\ res[k].event_signup_date = NaT

\* C10's case: a customer with a signup event of another date and one of the
\* same date is reported for the first only, and a customer with no signup
\* event is reported with a missing event_signup_date
C10_Witness ==
    /\ Validated
    /\ validation_dict["signup_mismatch"] =
          << [customer_id |-> 1, signup_date |-> 5, event_signup_date |-> 10],
             [customer_id |-> 2, signup_date |-> 5, event_signup_date |-> NaT] >>
    /\ \E j \in DOMAIN events_df :
          /\ events_df[j].customer_id = 1
          /\ events_df[j].event_type = "signup"
          /\ events_df[j].event_date = 5
====
